---- MODULE Spec2Model ----
(***************************************************************************)
(* A model of main.py: the object graph of Network / Computer / Component  *)
(* instances, the fluent "add" mutators, clone (copy.deepcopy), the name   *)
(* lookup and the ASCII tree rendering.                                    *)
(*                                                                         *)
(* Objects have identity.  Each class has its own heap, a sequence of      *)
(* records; an object's identity is its index in that sequence.  A list    *)
(* attribute that holds objects holds their identities, so that the same   *)
(* object can sit in several lists, as a Python list of references can.    *)
(* Address objects are created inside add_address and have no mutator, so  *)
(* an address list holds the address strings themselves.                   *)
(***************************************************************************)
EXTENDS Integers, Sequences, FiniteSets, TLC

VARIABLES
    networks,    \* heap of Network objects:  [name, computers]
    computers,   \* heap of Computer objects: [name, addresses, components]
    components,  \* heap of Component objects (CPU, Memory, Disk)
    cloned,      \* history: the pairs <<original, copy>> of Network.clone()
    pc,          \* position in main()
    loc          \* the local variables of main()

vars == <<networks, computers, components, cloned, pc, loc>>

(***************************************************************************)
(* Bounds of the model and the values the operations are called with.      *)
(***************************************************************************)
MaxSize == 6     \* objects plus list entries, over the three heaps

NetNames == {"N"}
Names == {"a", "b "}
Addrs == {"10.0.0.1"}
Cores == {4}
Clocks == {2500}
MemSizes == {16000}
DiskSizes == {256}
PartSizes == {500}
PartNames == {"sys", "data"}
Prefixes == {"", "| ", "  "}

Range(s) == {s[i] : i \in DOMAIN s}

StartsWith(s, p) == Len(s) >= Len(p) /\ SubSeq(s, 1, Len(p)) = p
EndsWith(s, p) == Len(s) >= Len(p) /\ SubSeq(s, Len(s) - Len(p) + 1, Len(s)) = p
Contains(s, p) == \E i \in 1..(Len(s) - Len(p) + 1) : SubSeq(s, i, i + Len(p) - 1) = p

SSD == 0
MAGNETIC == 1

(***************************************************************************)
(* TreePrinter                                                             *)
(***************************************************************************)
tree_connector(last) == IF last THEN "\\-" ELSE "+-"

\* mutant: the index taken as 1-based
is_last_one_based(index, items) == index = Len(items)

\* index is the 0-based index of enumerate()
is_last(index, items) == index = Len(items) - 1

\* mutant: the pipe continued below every node, last or not
sub_prefix_piped(prefix, last) == prefix \o "| "

sub_prefix(prefix, last) == prefix \o (IF last THEN "  " ELSE "| ")

(***************************************************************************)
(* The text sink.  A StringIO is modelled by the sequence of the strings   *)
(* written to it; getvalue() is their concatenation.                       *)
(***************************************************************************)
RECURSIVE getvalue(_)
getvalue(os) == IF os = <<>> THEN "" ELSE Head(os) \o getvalue(Tail(os))

RECURSIVE Flatten(_)
Flatten(ss) == IF ss = <<>> THEN <<>> ELSE Head(ss) \o Flatten(Tail(ss))

\* characters str.rstrip() with no argument removes (the ASCII ones a
\* TLA+ string can spell)
Whitespace == {" ", "\t", "\n", "\r", "\f"}

RECURSIVE rstrip(_)
rstrip(s) ==
    IF Len(s) > 0 /\ SubSeq(s, Len(s), Len(s)) \in Whitespace
    THEN rstrip(SubSeq(s, 1, Len(s) - 1))
    ELSE s

(***************************************************************************)
(* print_me of each class: the sequence of writes it makes.                *)
(***************************************************************************)
Address_print_me(addr, prefix, last) ==
    << prefix \o tree_connector(last) \o addr \o "\n" >>

CPU_print_me(k, prefix, last) ==
    << prefix \o tree_connector(last) \o "CPU, " \o ToString(k.cores)
         \o " cores @ " \o ToString(k.mhz) \o "MHz\n" >>

Memory_print_me(k, prefix, last) ==
    << prefix \o tree_connector(last) \o "Memory, " \o ToString(k.size)
         \o " MiB\n" >>

\* mutant: the storage type tested for truth, and SSD is 0
Disk_print_me_truthy(k, prefix, last) ==
    LET disk_type == IF k.storage_type # 0 THEN "SSD" ELSE "HDD"
        part_prefix == sub_prefix(prefix, last)
    IN  << prefix \o tree_connector(last) \o disk_type \o ", "
             \o ToString(k.size) \o " GiB\n" >>
        \o [ j \in 1..Len(k.partitions) |->
               part_prefix \o tree_connector(is_last(j - 1, k.partitions))
                 \o "[" \o ToString(j - 1) \o "]: " \o ToString(k.partitions[j][1])
                 \o " GiB, " \o k.partitions[j][2] \o "\n" ]

\* mutant: enumerate(self._partitions, 1)
Disk_print_me_from_one(k, prefix, last) ==
    LET disk_type == IF k.storage_type = SSD THEN "SSD" ELSE "HDD"
        part_prefix == sub_prefix(prefix, last)
    IN  << prefix \o tree_connector(last) \o disk_type \o ", "
             \o ToString(k.size) \o " GiB\n" >>
        \o [ j \in 1..Len(k.partitions) |->
               part_prefix \o tree_connector(is_last(j, k.partitions))
                 \o "[" \o ToString(j) \o "]: " \o ToString(k.partitions[j][1])
                 \o " GiB, " \o k.partitions[j][2] \o "\n" ]

Disk_print_me(k, prefix, last) ==
    LET disk_type == IF k.storage_type = SSD THEN "SSD" ELSE "HDD"
        part_prefix == sub_prefix(prefix, last)
    IN  << prefix \o tree_connector(last) \o disk_type \o ", "
             \o ToString(k.size) \o " GiB\n" >>
        \o [ j \in 1..Len(k.partitions) |->
               LET i == j - 1
                   size == k.partitions[j][1]
                   name == k.partitions[j][2]
               IN  part_prefix \o tree_connector(is_last(i, k.partitions))
                     \o "[" \o ToString(i) \o "]: " \o ToString(size)
                     \o " GiB, " \o name \o "\n" ]

\* comp.print_me(...): dispatch on the class of the component
Component_print_me(k, prefix, last) ==
    CASE k.kind = "CPU" -> CPU_print_me(k, prefix, last)
      [] k.kind = "Memory" -> Memory_print_me(k, prefix, last)
      [] k.kind = "Disk" -> Disk_print_me(k, prefix, last)

\* mutant: the last address marked terminal whatever the components
Computer_print_me_own_last(c, prefix, last) ==
    LET sub == sub_prefix(prefix, last)
    IN  << prefix \o tree_connector(last) \o "Host: " \o c.name \o "\n" >>
        \o Flatten([ j \in 1..Len(c.addresses) |->
               Address_print_me(c.addresses[j], sub, is_last(j - 1, c.addresses)) ])
        \o Flatten([ j \in 1..Len(c.components) |->
               Component_print_me(components[c.components[j]], sub,
                   is_last(j - 1, c.components)) ])

Computer_print_me(c, prefix, last) ==
    LET sub == sub_prefix(prefix, last)
    IN  << prefix \o tree_connector(last) \o "Host: " \o c.name \o "\n" >>
        \o Flatten([ j \in 1..Len(c.addresses) |->
               Address_print_me(c.addresses[j], sub,
                   is_last(j - 1, c.addresses) /\ Len(c.components) = 0) ])
        \o Flatten([ j \in 1..Len(c.components) |->
               Component_print_me(components[c.components[j]], sub,
                   is_last(j - 1, c.components)) ])

Network_print_me(n) ==
    << "Network: " \o n.name \o "\n" >>
    \o Flatten([ j \in 1..Len(n.computers) |->
           Computer_print_me(computers[n.computers[j]], "",
               is_last(j - 1, n.computers)) ])

\* Printable.__str__: print_me(os) with the default prefix and is_last of
\* the class, then rstrip()
Printable_str(os) == rstrip(getvalue(os))

Network_str(n) == Printable_str(Network_print_me(n))
Computer_str(c) == Printable_str(Computer_print_me(c, "", TRUE))
Component_str(k) == Printable_str(Component_print_me(k, "", TRUE))
Address_str(a) == Printable_str(Address_print_me(a, "", TRUE))

(***************************************************************************)
(* Network.find_computer: the scan of the list from its head.              *)
(***************************************************************************)
None == 0    \* no object has identity 0

\* mutant: the scan goes on after a match and keeps the latest
RECURSIVE find_from_no_return(_, _)
find_from_no_return(comps, name) ==
    IF comps = <<>> THEN None
    ELSE IF computers[comps[Len(comps)]].name = name THEN comps[Len(comps)]
    ELSE find_from_no_return(SubSeq(comps, 1, Len(comps) - 1), name)

RECURSIVE find_from(_, _)
find_from(comps, name) ==
    IF comps = <<>> THEN None
    ELSE IF computers[Head(comps)].name = name THEN Head(comps)
    ELSE find_from(Tail(comps), name)

\* mutant: the list scanned from its end
find_computer_reversed(n, name) ==
    LET L == networks[n].computers
    IN  find_from([i \in DOMAIN L |-> L[Len(L) + 1 - i]], name)

find_computer(n, name) == find_from(networks[n].computers, name)

(***************************************************************************)
(* Constructors and mutators.                                              *)
(***************************************************************************)
Network(name) ==
    /\ networks' = Append(networks, [name |-> name, computers |-> <<>>])
    /\ UNCHANGED <<computers, components>>

Computer(name) ==
    /\ computers' = Append(computers,
           [name |-> name, addresses |-> <<>>, components |-> <<>>])
    /\ UNCHANGED <<networks, components>>

CPU(cores, mhz) ==
    /\ components' = Append(components,
           [kind |-> "CPU", cores |-> cores, mhz |-> mhz])
    /\ UNCHANGED <<networks, computers>>

Memory(size) ==
    /\ components' = Append(components, [kind |-> "Memory", size |-> size])
    /\ UNCHANGED <<networks, computers>>

Disk(storage_type, size) ==
    /\ components' = Append(components,
           [kind |-> "Disk", storage_type |-> storage_type, size |-> size,
            partitions |-> <<>>])
    /\ UNCHANGED <<networks, computers>>

add_address(c, addr) ==
    /\ computers' = [computers EXCEPT ![c].addresses = Append(@, addr)]
    /\ UNCHANGED <<networks, components>>

add_component(c, k) ==
    /\ computers' = [computers EXCEPT ![c].components = Append(@, k)]
    /\ UNCHANGED <<networks, components>>

add_computer(n, c) ==
    /\ networks' = [networks EXCEPT ![n].computers = Append(@, c)]
    /\ UNCHANGED <<computers, components>>

add_partition(d, size, name) ==
    /\ components' = [components EXCEPT ![d].partitions = Append(@, <<size, name>>)]
    /\ UNCHANGED <<networks, computers>>

(***************************************************************************)
(* clone: copy.deepcopy.  Every object reachable from the copied one gets  *)
(* one new object, whatever the number of lists that hold it (deepcopy's   *)
(* memo), and the lists of the copies hold the copies.                     *)
(***************************************************************************)
Rank(x, S) == Cardinality({y \in S : y <= x})
Nth(S, i) == CHOOSE x \in S : Rank(x, S) = i

ComponentsOf(cs) == UNION {Range(computers[c].components) : c \in cs}

\* the copies of the computers RC and of their components, appended to the
\* heaps; copyC and copyK map an object to its copy
copyK(k, RK) == Len(components) + Rank(k, RK)
copyC(c, RC) == Len(computers) + Rank(c, RC)

deepcopy_components(RK) ==
    components' = components \o [i \in 1..Cardinality(RK) |-> components[Nth(RK, i)]]

deepcopy_computers(RC) ==
    LET RK == ComponentsOf(RC)
    IN  /\ deepcopy_components(RK)
        /\ computers' = computers \o
             [i \in 1..Cardinality(RC) |->
                LET c == computers[Nth(RC, i)]
                IN  [c EXCEPT !.components =
                        [j \in DOMAIN c.components |-> copyK(c.components[j], RK)]]]

Network_clone(n) ==
    LET RC == Range(networks[n].computers)
    IN  /\ deepcopy_computers(RC)
        /\ networks' = Append(networks,
             [networks[n] EXCEPT !.computers =
                 [j \in DOMAIN networks[n].computers |->
                     copyC(networks[n].computers[j], RC)]])

Computer_clone(c) ==
    /\ deepcopy_computers({c})
    /\ UNCHANGED networks

Component_clone(k) ==
    /\ deepcopy_components({k})
    /\ UNCHANGED <<networks, computers>>

(***************************************************************************)
(* The library used by any caller: every operation, on any object, with    *)
(* any argument of the right class, while the object graph has room.       *)
(***************************************************************************)
NoLocals == [n |-> None, x |-> None, c |-> None, t |-> None, k |-> None,
             d1 |-> None, d2 |-> None]

Init ==
    /\ networks = <<>>
    /\ computers = <<>>
    /\ components = <<>>
    /\ cloned = {}
    /\ pc = 0
    /\ loc = NoLocals

Disks == {k \in DOMAIN components : components[k].kind = "Disk"}

RECURSIVE Sum(_)
Sum(s) == IF s = <<>> THEN 0 ELSE Head(s) + Sum(Tail(s))

SizeOf(nets, comps, ks) ==
    Len(nets) + Len(comps) + Len(ks)
    + Sum([n \in DOMAIN nets |-> Len(nets[n].computers)])
    + Sum([c \in DOMAIN comps |->
             Len(comps[c].addresses) + Len(comps[c].components)])
    + Sum([k \in DOMAIN ks |->
             IF ks[k].kind = "Disk" THEN Len(ks[k].partitions) ELSE 0])

Room == SizeOf(networks, computers, components) < MaxSize

NewNetwork ==
    /\ Room
    /\ \E name \in NetNames : Network(name)
    /\ UNCHANGED <<cloned, pc, loc>>

NewComputer ==
    /\ Room
    /\ \E name \in Names : Computer(name)
    /\ UNCHANGED <<cloned, pc, loc>>

NewCPU ==
    /\ Room
    /\ \E cores \in Cores, mhz \in Clocks : CPU(cores, mhz)
    /\ UNCHANGED <<cloned, pc, loc>>

NewMemory ==
    /\ Room
    /\ \E size \in MemSizes : Memory(size)
    /\ UNCHANGED <<cloned, pc, loc>>

NewDisk ==
    /\ Room
    /\ \E t \in {SSD, MAGNETIC}, size \in DiskSizes : Disk(t, size)
    /\ UNCHANGED <<cloned, pc, loc>>

AddAddress ==
    /\ Room
    /\ \E c \in DOMAIN computers, addr \in Addrs : add_address(c, addr)
    /\ UNCHANGED <<cloned, pc, loc>>

AddComponent ==
    /\ Room
    /\ \E c \in DOMAIN computers, k \in DOMAIN components : add_component(c, k)
    /\ UNCHANGED <<cloned, pc, loc>>

AddComputer ==
    /\ Room
    /\ \E n \in DOMAIN networks, c \in DOMAIN computers : add_computer(n, c)
    /\ UNCHANGED <<cloned, pc, loc>>

AddPartition ==
    /\ Room
    /\ \E d \in Disks, size \in PartSizes, name \in PartNames :
          add_partition(d, size, name)
    /\ UNCHANGED <<cloned, pc, loc>>

CloneNetwork ==
    /\ \E n \in DOMAIN networks :
          /\ Network_clone(n)
          /\ SizeOf(networks', computers', components') <= MaxSize
          /\ cloned' = cloned \cup {<<n, Len(networks')>>}
    /\ UNCHANGED <<pc, loc>>

CloneComputer ==
    /\ \E c \in DOMAIN computers :
          /\ Computer_clone(c)
          /\ SizeOf(networks', computers', components') <= MaxSize
    /\ UNCHANGED <<cloned, pc, loc>>

CloneComponent ==
    /\ \E k \in DOMAIN components :
          /\ Component_clone(k)
          /\ SizeOf(networks', computers', components') <= MaxSize
    /\ UNCHANGED <<cloned, pc, loc>>

Next ==
    \/ NewNetwork \/ NewComputer \/ NewCPU \/ NewMemory \/ NewDisk
    \/ AddAddress \/ AddComponent \/ AddComputer \/ AddPartition
    \/ CloneNetwork \/ CloneComputer \/ CloneComponent

Spec == Init /\ [][Next]_vars

(***************************************************************************)
(* main(): the example program, one step per call, in Python's order of    *)
(* evaluation.  loc.t and loc.k are the computer and the component a       *)
(* fluent chain is building; an assert is a guard, so a failing assert     *)
(* stops main() where it is.  The name of the network is any of MainNames  *)
(* (main() itself uses "MISIS network"), and expected_output carries it.   *)
(***************************************************************************)
MainNames == {"N", "MISIS network", "lab", "net 2", ""}

expected_output(name) ==
    "Network: " \o name \o "\n"
    \o "+-Host: server1.misis.ru\n"
    \o "| +-192.168.1.1\n"
    \o "| +-CPU, 4 cores @ 2500MHz\n"
    \o "| \\-Memory, 16000 MiB\n"
    \o "\\-Host: server2.misis.ru\n"
    \o "  +-10.0.0.1\n"
    \o "  +-CPU, 8 cores @ 3200MHz\n"
    \o "  \\-HDD, 2000 GiB\n"
    \o "    +-[0]: 500 GiB, system\n"
    \o "    \\-[1]: 1500 GiB, data"

\* a step of main() at position i that runs action A and leaves the locals l
Step(i, A, l) ==
    /\ pc = i
    /\ A
    /\ loc' = l
    /\ pc' = i + 1
    /\ UNCHANGED cloned

\* a step of main() that only evaluates: an assert (P) or a lookup
Eval(i, P, l) ==
    /\ pc = i
    /\ P
    /\ loc' = l
    /\ pc' = i + 1
    /\ UNCHANGED <<networks, computers, components, cloned>>

NewC == Len(computers) + 1     \* the identity the next Computer gets
NewK == Len(components) + 1    \* the identity the next Component gets

main ==
    \/ \E name \in MainNames :
          Step(0, Network(name), [loc EXCEPT !.n = Len(networks) + 1])
    \* n.add_computer(Computer("server1.misis.ru")...)
    \/ Step(1, Computer("server1.misis.ru"), [loc EXCEPT !.t = NewC])
    \/ Step(2, add_address(loc.t, "192.168.1.1"), loc)
    \/ Step(3, CPU(4, 2500), [loc EXCEPT !.k = NewK])
    \/ Step(4, add_component(loc.t, loc.k), loc)
    \/ Step(5, Memory(16000), [loc EXCEPT !.k = NewK])
    \/ Step(6, add_component(loc.t, loc.k), loc)
    \/ Step(7, add_computer(loc.n, loc.t), loc)
    \* n.add_computer(Computer("server2.misis.ru")...)
    \/ Step(8, Computer("server2.misis.ru"), [loc EXCEPT !.t = NewC])
    \/ Step(9, add_address(loc.t, "10.0.0.1"), loc)
    \/ Step(10, CPU(8, 3200), [loc EXCEPT !.k = NewK])
    \/ Step(11, add_component(loc.t, loc.k), loc)
    \/ Step(12, Disk(MAGNETIC, 2000), [loc EXCEPT !.k = NewK])
    \/ Step(13, add_partition(loc.k, 500, "system"), loc)
    \/ Step(14, add_partition(loc.k, 1500, "data"), loc)
    \/ Step(15, add_component(loc.t, loc.k), loc)
    \/ Step(16, add_computer(loc.n, loc.t), loc)
    \* assert str(n) == expected_output
    \/ Eval(17, Network_str(networks[loc.n])
                  = expected_output(networks[loc.n].name), loc)
    \* x = n.clone()
    \/ /\ pc = 18
       /\ Network_clone(loc.n)
       /\ cloned' = cloned \cup {<<loc.n, Len(networks) + 1>>}
       /\ loc' = [loc EXCEPT !.x = Len(networks) + 1]
       /\ pc' = 19
    \* c = x.find_computer("server2.misis.ru")
    \/ Eval(19, TRUE,
            [loc EXCEPT !.c = find_computer(loc.x, "server2.misis.ru")])
    \* c.add_component(Disk(Disk.SSD, 500).add_partition(500, "fast_storage"))
    \/ Step(20, Disk(SSD, 500), [loc EXCEPT !.k = NewK])
    \/ Step(21, add_partition(loc.k, 500, "fast_storage"), loc)
    \/ Step(22, loc.c # None /\ add_component(loc.c, loc.k), loc)
    \* assert x.find_computer("server1.misis.ru") is not None
    \/ Eval(23, find_computer(loc.x, "server1.misis.ru") # None, loc)
    \* the asserts on the component counts of server2 in n and in x
    \/ Eval(24, LET original_server2 == find_computer(loc.n, "server2.misis.ru")
                    modified_server2 == find_computer(loc.x, "server2.misis.ru")
                IN  /\ original_server2 # None
                    /\ modified_server2 # None
                    /\ Len(computers[original_server2].components) = 2
                    /\ Len(computers[modified_server2].components) = 3, loc)
    \* disk_tests
    \/ Step(25, Disk(SSD, 256), [loc EXCEPT !.d1 = NewK])
    \/ Step(26, Disk(MAGNETIC, 1000), [loc EXCEPT !.d2 = NewK])
    \/ Eval(27, Contains(Component_str(components[loc.d1]), "SSD"), loc)
    \/ Eval(28, Contains(Component_str(components[loc.d2]), "HDD"), loc)

SpecMain == Init /\ [][main]_vars

(***************************************************************************)
(* Helpers of the properties.                                              *)
(***************************************************************************)

\* the positions of list L that hold a computer named name
Matches(L, name) == {i \in DOMAIN L : computers[L[i]].name = name}
Min(S) == CHOOSE i \in S : \A j \in S : i <= j
Max(S) == CHOOSE i \in S : \A j \in S : i >= j

\* the names looked up: those in use and one never given to a computer
QueryNames == Names \cup {"zz"}

\* what is reachable from network n
ReachC(n) == Range(networks[n].computers)
ReachK(n) == ComponentsOf(ReachC(n))

(***************************************************************************)
(* Clone independence.  Snapshot(n) is all that can be seen from network   *)
(* n: its lists, the lists of the objects they reach, and its display      *)
(* string.  MutatedThrough(n) says the step changed n or an object that    *)
(* was reachable from n.                                                   *)
(***************************************************************************)
Snapshot(n) ==
    [net |-> networks[n],
     comps |-> [c \in ReachC(n) |-> computers[c]],
     ks |-> [k \in ReachK(n) |-> components[k]],
     text |-> Network_str(networks[n])]

MutatedThrough(n) ==
    \/ networks'[n] # networks[n]
    \/ \E c \in ReachC(n) : computers'[c] # computers[c]
    \/ \E k \in ReachK(n) : components'[k] # components[k]

\* clone() itself: the copy reaches only objects made by the clone, renders
\* as the original does, and the original is left as it was
CloneIsDeep ==
    [][\A p \in cloned' \ cloned :
          /\ ReachC(p[2])' \cap DOMAIN computers = {}
          /\ ReachK(p[2])' \cap DOMAIN components = {}
          /\ Network_str(networks[p[2]])' = Network_str(networks[p[1]])
          /\ Snapshot(p[1])' = Snapshot(p[1])]_vars

\* C1, as claimed: once X = N.clone(), a step that mutates X or an object
\* reachable from X leaves N, every list reachable from N and N's rendering
\* unchanged, and the same with N and X swapped.
C1_CloneIndependence ==
    [][\A p \in cloned :
          /\ MutatedThrough(p[2]) => Snapshot(p[1])' = Snapshot(p[1])
          /\ MutatedThrough(p[1]) => Snapshot(p[2])' = Snapshot(p[2])]_vars

(***************************************************************************)
(* C2: find_computer(name) returns the first computer, in insertion order, *)
(* whose name equals the query, and None exactly when the network holds no *)
(* computer of that name; duplicates included.                             *)
(***************************************************************************)
C2_FindFirst ==
    \A n \in DOMAIN networks, name \in QueryNames :
        LET L == networks[n].computers
            M == Matches(L, name)
            r == find_computer(n, name)
        IN  /\ (r = None) <=> (M = {})
            /\ M # {} => r = L[Min(M)]

C2_Witness ==
    \E n \in DOMAIN networks :
        LET L == networks[n].computers
        IN  /\ Len(L) = 2 /\ L[1] # L[2]
            /\ computers[L[1]].name = "a" /\ computers[L[2]].name = "a"
            /\ find_computer(n, "a") = L[1]
            /\ find_computer(n, "b ") = None

(***************************************************************************)
(* C4: in a rendered Computer the last address line has the connector \-   *)
(* if and only if the computer has no component; every other address line, *)
(* and every address line of a computer with components, has +-.           *)
(***************************************************************************)
C4_AddressConnector ==
    \A c \in DOMAIN computers, prefix \in Prefixes, last \in BOOLEAN :
        LET comp == computers[c]
            os == Computer_print_me(comp, prefix, last)
        IN  \A j \in 1..Len(comp.addresses) :
              LET line == os[1 + j]
                  addr == comp.addresses[j]
                  conn == SubSeq(line, Len(line) - Len(addr) - 2,
                                 Len(line) - Len(addr) - 1)
              IN  /\ EndsWith(line, addr \o "\n")
                  /\ conn \in {"\\-", "+-"}
                  /\ (conn = "\\-") <=>
                        (j = Len(comp.addresses) /\ Len(comp.components) = 0)

C4_Witness ==
    \E c \in DOMAIN computers :
        /\ Len(computers[c].addresses) = 2
        /\ Len(computers[c].components) >= 1
        /\ StartsWith(Computer_print_me(computers[c], "", TRUE)[3], "  +-")

(***************************************************************************)
(* C5: a Disk renders one line per add_partition call after its header,    *)
(* in call order; the i-th carries index i and the size and name of the    *)
(* i-th call, and only the last has the connector \-.  The partition list  *)
(* is the record of the calls: a step that changes it appends one pair.    *)
(***************************************************************************)
C5_Rendered ==
    \A d \in Disks, prefix \in Prefixes, last \in BOOLEAN :
        LET P == components[d].partitions
            os == Disk_print_me(components[d], prefix, last)
        IN  /\ Len(os) = 1 + Len(P)
            /\ \A j \in 1..Len(P) :
                 LET payload == "[" \o ToString(j - 1) \o "]: " \o ToString(P[j][1])
                                  \o " GiB, " \o P[j][2] \o "\n"
                     line == os[1 + j]
                     conn == SubSeq(line, Len(line) - Len(payload) - 1,
                                    Len(line) - Len(payload))
                 IN  /\ EndsWith(line, payload)
                     /\ conn \in {"\\-", "+-"}
                     /\ (conn = "\\-") <=> (j = Len(P))

C5_CallOrder ==
    \A d \in Disks :
        components'[d] # components[d] =>
            \E size \in PartSizes, name \in PartNames :
                components'[d].partitions
                    = components[d].partitions \o << <<size, name>> >>

\* C5: the partition lines of a rendered Disk are its add_partition calls,
\* in call order, indexed from 0, and only the last has the connector \-
C5_PartitionOrder == []C5_Rendered /\ [][C5_CallOrder]_vars

C5_Witness ==
    \E d \in Disks :
        LET P == components[d].partitions
        IN  /\ Len(P) = 3 /\ P[1] = P[3] /\ P[1] # P[2]
            /\ EndsWith(Disk_print_me(components[d], "", TRUE)[4],
                        "\\-[2]: 500 GiB, " \o P[3][2] \o "\n")

(***************************************************************************)
(* C6, as claimed: the display string of any entity, with one newline      *)
(* appended, is the text its render wrote.                                 *)
(***************************************************************************)
C6_StrDropsOneNewline ==
    /\ \A n \in DOMAIN networks :
          Network_str(networks[n]) \o "\n" = getvalue(Network_print_me(networks[n]))
    /\ \A c \in DOMAIN computers :
          Computer_str(computers[c]) \o "\n"
              = getvalue(Computer_print_me(computers[c], "", TRUE))
    /\ \A k \in DOMAIN components :
          Component_str(components[k]) \o "\n"
              = getvalue(Component_print_me(components[k], "", TRUE))
    /\ \A c \in DOMAIN computers : \A a \in Range(computers[c].addresses) :
          Address_str(a) \o "\n" = getvalue(Address_print_me(a, "", TRUE))

(***************************************************************************)
(* C7, as claimed: each Computer is held by at most one Network's list and *)
(* each component by at most one Computer's list, at most once.            *)
(***************************************************************************)
HoldersOfComputer(c) ==
    UNION {{<<n, i>> : i \in {j \in DOMAIN networks[n].computers :
                                  networks[n].computers[j] = c}} :
           n \in DOMAIN networks}

HoldersOfComponent(k) ==
    UNION {{<<c, i>> : i \in {j \in DOMAIN computers[c].components :
                                  computers[c].components[j] = k}} :
           c \in DOMAIN computers}

C7_NoSharedOwnership ==
    /\ \A c \in DOMAIN computers : Cardinality(HoldersOfComputer(c)) <= 1
    /\ \A k \in DOMAIN components : Cardinality(HoldersOfComponent(k)) <= 1

(***************************************************************************)
(* C9: the header line of a Disk is prefix, connector, label, ", ", size,  *)
(* " GiB", the label being SSD for kind SSD and HDD for kind MAGNETIC.     *)
(***************************************************************************)
\* the sizes a disk is rendered with: the header is a function of the disk's
\* fields alone, so each disk of the heap is rendered with each of them
RenderedSizes == {0, 256, 1000, 2000}

C9_DiskLabel ==
    \A d \in Disks, size \in RenderedSizes, prefix \in Prefixes, last \in BOOLEAN :
        LET k == [components[d] EXCEPT !.size = size]
            label == CASE k.storage_type = SSD -> "SSD"
                       [] k.storage_type = MAGNETIC -> "HDD"
        IN  Disk_print_me(k, prefix, last)[1]
              = prefix \o (IF last THEN "\\-" ELSE "+-") \o label \o ", "
                  \o ToString(size) \o " GiB\n"

C9_Witness ==
    \E d, e \in Disks :
        /\ components[d].storage_type = MAGNETIC
        /\ components[e].storage_type = SSD
        /\ Len(components[d].partitions) >= 1
        /\ Contains(Component_str(components[d]), "HDD, 256 GiB")
        /\ Contains(Component_str(components[e]), "SSD, 256 GiB")

(***************************************************************************)
(* C10, as claimed: with two or more computers of one name in a Network,   *)
(* find_computer returns the one added last.                               *)
(***************************************************************************)
C10_LastMatchWins ==
    \A n \in DOMAIN networks, name \in QueryNames :
        LET L == networks[n].computers
            M == Matches(L, name)
        IN  Cardinality(M) >= 2 => find_computer(n, name) = L[Max(M)]

(***************************************************************************)
(* C10, amended: with two or more computers of one name in a Network,      *)
(* find_computer returns the one added first.                              *)
(***************************************************************************)
C10_FirstMatchWins ==
    \A n \in DOMAIN networks, name \in QueryNames :
        LET L == networks[n].computers
            M == Matches(L, name)
        IN  Cardinality(M) >= 2 =>
              /\ find_computer(n, name) = L[Min(M)]
              /\ \A i \in M : L[i] # L[Min(M)] => find_computer(n, name) # L[i]

C10_Witness ==
    \E n \in DOMAIN networks :
        LET L == networks[n].computers
        IN  /\ Len(L) = 2
            /\ computers[L[1]].name = computers[L[2]].name
            /\ computers[L[1]].addresses = <<>>
            /\ computers[L[2]].addresses # <<>>
            /\ computers[find_computer(n, computers[L[1]].name)].addresses = <<>>

(***************************************************************************)
(* C3: a Network that holds, in order, server1.misis.ru (192.168.1.1,      *)
(* CPU(4,2500), Memory(16000)) and server2.misis.ru (10.0.0.1,             *)
(* CPU(8,3200), Disk(MAGNETIC,2000) with partitions (500,system) and       *)
(* (1500,data)) has the eleven golden lines as its display string, with    *)
(* no trailing newline.                                                    *)
(***************************************************************************)
ComponentsAt(c) == [j \in DOMAIN computers[c].components |->
                        components[computers[c].components[j]]]

IsGolden(n) ==
    LET L == networks[n].computers
    IN  /\ Len(L) = 2
        /\ computers[L[1]].name = "server1.misis.ru"
        /\ computers[L[1]].addresses = <<"192.168.1.1">>
        /\ ComponentsAt(L[1]) = << [kind |-> "CPU", cores |-> 4, mhz |-> 2500],
                                   [kind |-> "Memory", size |-> 16000] >>
        /\ computers[L[2]].name = "server2.misis.ru"
        /\ computers[L[2]].addresses = <<"10.0.0.1">>
        /\ ComponentsAt(L[2]) =
             << [kind |-> "CPU", cores |-> 8, mhz |-> 3200],
                [kind |-> "Disk", storage_type |-> MAGNETIC, size |-> 2000,
                 partitions |-> << <<500, "system">>, <<1500, "data">> >>] >>

GoldenLines(name) ==
    << "Network: " \o name,
       "+-Host: server1.misis.ru",
       "| +-192.168.1.1",
       "| +-CPU, 4 cores @ 2500MHz",
       "| \\-Memory, 16000 MiB",
       "\\-Host: server2.misis.ru",
       "  +-10.0.0.1",
       "  +-CPU, 8 cores @ 3200MHz",
       "  \\-HDD, 2000 GiB",
       "    +-[0]: 500 GiB, system",
       "    \\-[1]: 1500 GiB, data" >>

RECURSIVE JoinLines(_)
JoinLines(ls) ==
    IF Len(ls) = 1 THEN ls[1] ELSE ls[1] \o "\n" \o JoinLines(Tail(ls))

C3_GoldenRender ==
    \A n \in DOMAIN networks :
        IsGolden(n) =>
            Network_str(networks[n]) = JoinLines(GoldenLines(networks[n].name))

C3_Witness ==
    \E n \in DOMAIN networks :
        /\ IsGolden(n)
        /\ networks[n].name = "N"
        /\ pc > 17
        /\ EndsWith(Network_str(networks[n]), "\\-[1]: 1500 GiB, data")

(***************************************************************************)
(* C8: in the rendering of a Network every address and component line of   *)
(* a Computer begins with two spaces if the computer is the last of the    *)
(* network and with "| " otherwise, followed by the connector; every       *)
(* partition line of a Disk begins with that prefix extended by two        *)
(* spaces if the disk is the last component of its computer and by "| "    *)
(* otherwise, followed by the connector.                                   *)
(***************************************************************************)
\* the number of lines a component, a computer renders
BlockLen(k) == 1 + (IF k.kind = "Disk" THEN Len(k.partitions) ELSE 0)

HostLen(c) ==
    1 + Len(c.addresses)
      + Sum([j \in DOMAIN c.components |-> BlockLen(components[c.components[j]])])

\* the line of the network's text that is the Host line of its j-th computer
HostLine(L, j) == 2 + Sum([i \in 1..(j - 1) |-> HostLen(computers[L[i]])])

\* the line, counted from the Host line, of the m-th component's first line
ComponentLine(c, m) ==
    1 + Len(c.addresses)
      + Sum([i \in 1..(m - 1) |-> BlockLen(components[c.components[i]])])

Connected(line, prefix) ==
    StartsWith(line, prefix \o "+-") \/ StartsWith(line, prefix \o "\\-")

C8_PrefixExtension ==
    \A n \in DOMAIN networks :
        LET L == networks[n].computers
            os == Network_print_me(networks[n])
        IN  \A j \in DOMAIN L :
              LET c == computers[L[j]]
                  h == HostLine(L, j)
                  ext == IF j = Len(L) THEN "  " ELSE "| "
              IN  /\ Connected(os[h], "")
                  /\ \A a \in 1..Len(c.addresses) : Connected(os[h + a], ext)
                  /\ \A m \in DOMAIN c.components :
                       LET k == components[c.components[m]]
                           t == h + ComponentLine(c, m)
                           ext2 == ext \o (IF m = Len(c.components)
                                           THEN "  " ELSE "| ")
                       IN  /\ Connected(os[t], ext)
                           /\ k.kind = "Disk" =>
                                \A p \in 1..Len(k.partitions) :
                                    Connected(os[t + p], ext2)

C8_Witness ==
    /\ loc.x # None
    /\ LET os == Network_print_me(networks[loc.x])
       IN  /\ Len(os) = 13
           /\ os[3] = "| +-192.168.1.1\n"
           /\ os[9] = "  +-HDD, 2000 GiB\n"
           /\ os[11] = "  | \\-[1]: 1500 GiB, data\n"
           /\ os[13] = "    \\-[0]: 500 GiB, fast_storage\n"

====
